---- MODULE Spec2Model ----
(***************************************************************************)
(* Session manager: the session store of App (src/src/types.ts, lines      *)
(* 96-194), its persistence (loadSessions / saveSessions) and the pure     *)
(* helpers of utils (src/unnamed/part_000).                                *)
(*                                                                         *)
(* JavaScript values are represented as follows.                           *)
(*   - an object is a record; a property that is missing is a key that is  *)
(*     not in the record's DOMAIN, a property that holds undefined is a    *)
(*     key whose value is Undefined;                                       *)
(*   - an array is a sequence;                                             *)
(*   - a JSON document is a tagged record [t |-> type, v |-> value], so    *)
(*     that Array.isArray and truthiness can be decided on it;             *)
(*   - a fractional number (a dose, a tolerance score) is an exact         *)
(*     rational [num, den] in lowest terms.                                *)
(* Of the descriptive session fields copied from the form (context, user,  *)
(* supplements, effects, notes, baseSubstance) the model keeps               *)
(* social.numPeopleSharing; the others are copied the same way.            *)
(***************************************************************************)
EXTENDS Integers, Sequences, FiniteSets, TLC

VARIABLES sessions, storage, nextId, lastOp, call, ret

vars == <<sessions, storage, nextId, lastOp, call, ret>>

(* ---------------------------- bounds ----------------------------------- *)
MaxTime == 1      \* Date.now() ranges over 0..MaxTime
MaxStarts == 2    \* sessions started in one run (fresh ids 1..MaxStarts)
MaxEvents == 1    \* consumption events held by the store

Times == 0..MaxTime

(* ------------------------- JavaScript values --------------------------- *)
Undefined == 0 - 1000000

\* obj.key : undefined when the property is missing
Get(obj, key) == IF key \in DOMAIN obj THEN obj[key] ELSE Undefined

\* a ?? b
Nullish(a, b) == IF a = Undefined THEN b ELSE a

\* { ...a, ...b }
Spread(a, b) == [k \in DOMAIN a \cup DOMAIN b |-> IF k \in DOMAIN b THEN b[k] ELSE a[k]]

\* Number(x || d) for a numeric form value x
NumberOr(x, d) == IF x = 0 THEN d ELSE x

Max(a, b) == IF a >= b THEN a ELSE b
Min(a, b) == IF a <= b THEN a ELSE b

\* fractional numbers, exact: num / den with den > 0, in lowest terms
RECURSIVE GCD(_, _)
GCD(a, b) == IF b = 0 THEN a ELSE GCD(b, a % b)

Abs(a) == IF a < 0 THEN 0 - a ELSE a

Frac(n, d) ==
  LET g == GCD(Abs(n), Abs(d))
      sgn == IF d < 0 THEN 0 - 1 ELSE 1
  IN [num |-> sgn * (n \div g), den |-> sgn * (d \div g)]

Zero == Frac(0, 1)
Plus(a, b) == Frac(a.num * b.den + b.num * a.den, a.den * b.den)
Times2(a, b) == Frac(a.num * b.num, a.den * b.den)
Less(a, b) == a.num * b.den < b.num * a.den
LessEq(a, b) == a.num * b.den <= b.num * a.den

\* Math.round(q): the nearest integer, a half rounding up
Round(q) == (2 * q.num + q.den) \div (2 * q.den)

RECURSIVE Pow2(_)
Pow2(n) == IF n = 0 THEN 1 ELSE 2 * Pow2(n - 1)

\* list.filter(s => s.id !== id)
RECURSIVE WithoutId(_, _)
WithoutId(list, id) ==
  IF list = <<>> THEN <<>>
  ELSE IF Head(list).id # id THEN <<Head(list)>> \o WithoutId(Tail(list), id)
       ELSE WithoutId(Tail(list), id)

(* ------------------------------ utils ---------------------------------- *)
byTimeAsc(a, b) == a.startTime - b.startTime

\* insert x into the sorted array arr, after every element that does not
\* compare greater (Array.prototype.sort is stable)
RECURSIVE InsertSorted(_, _)
InsertSorted(arr, x) ==
  IF arr = <<>> THEN <<x>>
  ELSE IF byTimeAsc(arr[Len(arr)], x) <= 0 THEN Append(arr, x)
       ELSE Append(InsertSorted(SubSeq(arr, 1, Len(arr) - 1), x), arr[Len(arr)])

\* a sort that leaves the array as it is
Unsorted(arr) == arr

\* arr.sort(byTimeAsc)
RECURSIVE SortByTimeAsc(_)
SortByTimeAsc(arr) ==
  IF arr = <<>> THEN <<>>
  ELSE InsertSorted(SortByTimeAsc(SubSeq(arr, 1, Len(arr) - 1)), arr[Len(arr)])

\* doseFromEvent that does not clamp thcPercent
doseFromEventNoClamp(ev, sharers) ==
  LET thcFrac == Frac(ev.thcPercent, 100)
      baseDose == Times2(Frac(ev.weightGrams, 1), thcFrac)
      people == Max(1, Nullish(sharers, 1))
  IN Times2(baseDose, Frac(1, people))

\* doseFromEvent(ev, sharers): grams of THC-equivalent per person
doseFromEvent(ev, sharers) ==
  LET thcFrac == Frac(Max(0, Min(ev.thcPercent, 100)), 100)
      baseDose == Times2(Frac(ev.weightGrams, 1), thcFrac)
      people == Max(1, Nullish(sharers, 1))
  IN Times2(baseDose, Frac(1, people))

\* a decay factor with the sign of the exponent lost
DecayGrowing(elapsed) == Frac(Pow2(elapsed), 1)

\* Math.exp(-lambda * elapsed), lambda = ln 2 / half-life: the model measures
\* time in half-lives (48 h), so the factor is 1 / 2^elapsed
Decay(elapsed) == Frac(1, Pow2(elapsed))

RECURSIVE SumContributions(_, _, _)
SumContributions(now, evs, sharers) ==
  IF evs = <<>> THEN Zero
  ELSE LET ev == Head(evs)
           elapsed == Max(0, now - ev.timestamp)
           contribution == Times2(doseFromEvent(ev, sharers), Decay(elapsed))
       IN Plus(contribution, SumContributions(now, Tail(evs), sharers))

RECURSIVE Score(_, _)
Score(now, list) ==
  IF list = <<>> THEN Zero
  ELSE Plus(SumContributions(now, Head(list).consumptions,
                             Get(Head(list).social, "numPeopleSharing")),
            Score(now, Tail(list)))

computeTolerance(now, list) ==
  Frac(Round(Times2(Score(now, list), Frac(1000, 1))), 10)

RECURSIVE SumDose(_, _)
SumDose(evs, sharers) ==
  IF evs = <<>> THEN Zero
  ELSE Plus(doseFromEvent(Head(evs), sharers), SumDose(Tail(evs), sharers))

computeSessionDose(s) == SumDose(s.consumptions, Get(s.social, "numPeopleSharing"))

\* intervalSincePrevious that measures from the previous start, never its end
intervalSincePreviousStart(list, index) ==
  IF index <= 0 THEN Undefined
  ELSE IF index + 1 > Len(list) THEN Undefined
  ELSE Max(0, list[index + 1].startTime - list[index].startTime)

\* intervalSincePrevious(sessions, index), index counted from 0
intervalSincePrevious(list, index) ==
  IF index <= 0 THEN Undefined
  ELSE IF index + 1 > Len(list) THEN Undefined
  ELSE LET curr == list[index + 1]
           prev == list[index]
           t1 == curr.startTime
           t0 == Nullish(Get(prev, "endTime"), prev.startTime)
       IN Max(0, t1 - t0)

\* parts.join(' ')
RECURSIVE Join(_)
Join(parts) ==
  IF parts = <<>> THEN ""
  ELSE IF Len(parts) = 1 THEN parts[1]
  ELSE parts[1] \o " " \o Join(Tail(parts))

\* formatDuration that shows seconds only when hours and minutes are both zero
formatDurationMinuteGate(ms) ==
  LET totalSeconds == ms \div 1000
      hours == totalSeconds \div 3600
      minutes == (totalSeconds % 3600) \div 60
      seconds == totalSeconds % 60
      p1 == IF hours # 0 THEN <<ToString(hours) \o "h">> ELSE <<>>
      p2 == IF minutes # 0 THEN Append(p1, ToString(minutes) \o "m") ELSE p1
      parts == IF seconds # 0 /\ hours = 0 /\ minutes = 0
               THEN Append(p2, ToString(seconds) \o "s") ELSE p2
  IN IF Join(parts) = "" THEN "0m" ELSE Join(parts)

formatDuration(ms) ==
  LET totalSeconds == ms \div 1000
      hours == totalSeconds \div 3600
      minutes == (totalSeconds % 3600) \div 60
      seconds == totalSeconds % 60
      p1 == IF hours # 0 THEN <<ToString(hours) \o "h">> ELSE <<>>
      p2 == IF minutes # 0 THEN Append(p1, ToString(minutes) \o "m") ELSE p1
      parts == IF seconds # 0 /\ hours = 0 THEN Append(p2, ToString(seconds) \o "s") ELSE p2
  IN IF Join(parts) = "" THEN "0m" ELSE Join(parts)

(* --------------------------- persistence ------------------------------- *)
JUndefined == [t |-> "undefined"]
JNull == [t |-> "null"]
JString(s) == [t |-> "string", v |-> s]
JNumber(n) == [t |-> "number", v |-> n]
JArray(a) == [t |-> "array", v |-> a]
JObject(o) == [t |-> "object", v |-> o]

\* the value localStorage.getItem returns
NoItem == [raw |-> "null"]
EmptyText == [raw |-> "empty"]
MalformedText == [raw |-> "malformed"]
Text(doc) == [raw |-> "json", doc |-> doc]

\* a serialiser that leaves every optional property out
StringifyObjectDropOptional(o, optional) == [k \in DOMAIN o \ optional |-> o[k]]

\* JSON.stringify of an object: a property whose value is undefined is left
\* out; optional names the properties the type declares optional
StringifyObject(o, optional) ==
  [k \in {j \in DOMAIN o : j \notin optional \/ o[j] # Undefined} |-> o[k]]

StringifyEvent(ev) == StringifyObject(ev, {"notes"})

StringifySession(s) ==
  StringifyObject(Spread(s, [consumptions |-> [n \in DOMAIN s.consumptions |-> StringifyEvent(s.consumptions[n])]]),
                  {"endTime"})

saveSessions(list, now) ==
  Text(JObject([sessions |-> JArray([i \in DOMAIN list |-> StringifySession(list[i])]),
                createdAt |-> JNumber(now), version |-> JNumber(1)]))

\* JSON.parse: a document, or a SyntaxError
JSONparse(raw) ==
  IF raw.raw = "json" THEN [threw |-> FALSE, val |-> raw.doc] ELSE [threw |-> TRUE]

Truthy(doc) ==
  CASE doc.t = "null" -> FALSE
    [] doc.t = "undefined" -> FALSE
    [] doc.t = "number" -> doc.v # 0
    [] doc.t = "string" -> doc.v # ""
    [] OTHER -> TRUE

IsArray(doc) == doc.t = "array"

\* parsed.sessions
SessionsOf(doc) ==
  IF doc.t = "object" /\ "sessions" \in DOMAIN doc.v THEN doc.v.sessions ELSE JUndefined

\* the body of the try block: a list, or an exception
loadSessionsTry(item) ==
  IF item.raw \in {"null", "empty"} THEN [threw |-> FALSE, val |-> <<>>]
  ELSE LET parsed == JSONparse(item)
       IN IF parsed.threw THEN [threw |-> TRUE]
          ELSE IF IsArray(parsed.val) THEN [threw |-> FALSE, val |-> parsed.val.v]
          ELSE IF Truthy(parsed.val) /\ IsArray(SessionsOf(parsed.val))
               THEN [threw |-> FALSE, val |-> SessionsOf(parsed.val).v]
          ELSE [threw |-> FALSE, val |-> <<>>]

\* loadSessions without the catch clause
loadSessionsNoCatch(item) == loadSessionsTry(item)

\* try { ... } catch { return [] }
loadSessions(item) ==
  LET r == loadSessionsTry(item)
  IN IF r.threw THEN [threw |-> FALSE, val |-> <<>>] ELSE r

(* ------------------------------- forms --------------------------------- *)
\* the form fields the handlers read (numeric inputs accept any number typed)
Forms ==
  { [weightGrams |-> 1, thcPercent |-> 20, numPeopleSharing |-> 2],
    [weightGrams |-> 0 - 1, thcPercent |-> 150, numPeopleSharing |-> 0] }

(* ---------------------------- session store ---------------------------- *)
\* sessions.find(s => s.active): the index of the first active session, 0 if none
ActiveIdx(list) ==
  IF \E i \in 1..Len(list) : list[i].active
  THEN CHOOSE i \in 1..Len(list) : list[i].active /\ \A j \in 1..(i - 1) : ~list[j].active
  ELSE 0

ActiveId(list) == IF ActiveIdx(list) = 0 THEN Undefined ELSE list[ActiveIdx(list)].id

RECURSIVE SumLen(_)
SumLen(list) == IF list = <<>> THEN 0 ELSE Len(Head(list).consumptions) + SumLen(Tail(list))

\* how the last handler call ended: it ran to its end, or returned at its guard
Done(name) == [name |-> name, outcome |-> "done"]
Returned(name) == [name |-> name, outcome |-> "returned"]

NewEvent(form, now) ==
  [timestamp |-> now, weightGrams |-> NumberOr(form.weightGrams, 0),
   thcPercent |-> NumberOr(form.thcPercent, 0), method |-> "Joint", notes |-> Undefined]

\* setSessions(next) followed by the effect that saves the new list
SetSessions(next, now) ==
  /\ sessions' = next
  /\ storage' = saveSessions(next, now)

startSession ==
  /\ ActiveIdx(sessions) = 0          \* the Start button is rendered
  /\ nextId <= MaxStarts
  /\ \E form \in Forms, now \in Times :
       /\ SumLen(sessions) < MaxEvents \/ form.weightGrams <= 0
       /\ LET first == NewEvent(form, now)
              newSession == [id |-> nextId, startTime |-> now, active |-> TRUE,
                             social |-> [numPeopleSharing |-> NumberOr(form.numPeopleSharing, 1)],
                             consumptions |-> IF first.weightGrams > 0 THEN <<first>> ELSE <<>>]
          IN SetSessions(SortByTimeAsc(Append(sessions, newSession)), now)
  /\ nextId' = nextId + 1
  /\ lastOp' = Done("startSession")
  /\ UNCHANGED <<call, ret>>

addConsumption ==
  /\ IF ActiveIdx(sessions) = 0
     THEN lastOp' = Returned("addConsumption") /\ UNCHANGED <<sessions, storage>>
     ELSE /\ SumLen(sessions) < MaxEvents
          /\ lastOp' = Done("addConsumption")
          /\ \E form \in Forms, now \in Times :
               LET ev == NewEvent(form, now)
                   f(s) == IF s.id = ActiveId(sessions)
                           THEN Spread(s, [consumptions |-> Append(s.consumptions, ev)])
                           ELSE s
               IN SetSessions([r \in DOMAIN sessions |-> f(sessions[r])], now)
  /\ UNCHANGED <<nextId, call, ret>>

updateContext ==
  /\ IF ActiveIdx(sessions) = 0
     THEN lastOp' = Returned("updateContext") /\ UNCHANGED <<sessions, storage>>
     ELSE /\ lastOp' = Done("updateContext")
          /\ \E form \in Forms, now \in Times :
               LET updated == [social |-> [numPeopleSharing |-> NumberOr(form.numPeopleSharing, 1)]]
                   f(s) == IF s.id = ActiveId(sessions) THEN Spread(s, updated) ELSE s
               IN SetSessions([r \in DOMAIN sessions |-> f(sessions[r])], now)
  /\ UNCHANGED <<nextId, call, ret>>

\* endSession without its guard: active.id of undefined is a TypeError
endSessionNoGuard ==
  /\ IF ActiveIdx(sessions) = 0
     THEN lastOp' = [name |-> "endSession", outcome |-> "threw"] /\ UNCHANGED <<sessions, storage>>
     ELSE /\ lastOp' = Done("endSession")
          /\ \E now \in Times :
               LET f(s) == IF s.id = ActiveId(sessions)
                           THEN Spread(s, [active |-> FALSE, endTime |-> now])
                           ELSE s
               IN SetSessions([r \in DOMAIN sessions |-> f(sessions[r])], now)
  /\ UNCHANGED <<nextId, call, ret>>

endSession ==
  /\ IF ActiveIdx(sessions) = 0
     THEN lastOp' = Returned("endSession") /\ UNCHANGED <<sessions, storage>>
     ELSE /\ lastOp' = Done("endSession")
          /\ \E now \in Times :
               LET f(s) == IF s.id = ActiveId(sessions)
                           THEN Spread(s, [active |-> FALSE, endTime |-> now])
                           ELSE s
               IN SetSessions([r \in DOMAIN sessions |-> f(sessions[r])], now)
  /\ UNCHANGED <<nextId, call, ret>>

\* the End button of a logbook row, rendered on the rows of active sessions:
\* onClick={() => endSession()}, the row is not passed on
endSessionRow ==
  /\ \E i \in 1..Len(sessions) :
       /\ sessions[i].active
       /\ lastOp' = [name |-> "endSession", outcome |-> "done", row |-> sessions[i].id]
  /\ \E now \in Times :
       LET f(s) == IF s.id = ActiveId(sessions)
                   THEN Spread(s, [active |-> FALSE, endTime |-> now])
                   ELSE s
       IN SetSessions([r \in DOMAIN sessions |-> f(sessions[r])], now)
  /\ UNCHANGED <<nextId, call, ret>>

\* resumeSession that sets active and leaves endTime as it was
resumeSessionKeepsEndTime ==
  /\ \E i \in 1..Len(sessions), now \in Times :
       /\ ~sessions[i].active
       /\ LET f(x) == IF x.id = sessions[i].id THEN Spread(x, [active |-> TRUE]) ELSE x
          IN SetSessions([r \in DOMAIN sessions |-> f(sessions[r])], now)
  /\ lastOp' = Done("resumeSession")
  /\ UNCHANGED <<nextId, call, ret>>

resumeSession ==
  /\ \E i \in 1..Len(sessions), now \in Times :
       /\ ~sessions[i].active              \* the row shows the Resume button
       /\ LET f(x) == IF x.id = sessions[i].id
                      THEN Spread(x, [active |-> TRUE, endTime |-> Undefined])
                      ELSE x
          IN SetSessions([r \in DOMAIN sessions |-> f(sessions[r])], now)
  /\ lastOp' = Done("resumeSession")
  /\ UNCHANGED <<nextId, call, ret>>

deleteSession ==
  /\ \E i \in 1..Len(sessions), confirmed \in BOOLEAN :
       IF ~confirmed
       THEN lastOp' = Returned("deleteSession") /\ UNCHANGED <<sessions, storage>>
       ELSE /\ lastOp' = Done("deleteSession")
            /\ \E now \in Times :
                 SetSessions(WithoutId(sessions, sessions[i].id), now)
  /\ UNCHANGED <<nextId, call, ret>>

\* the page is opened again: the list is read back from the storage, then saved
reload ==
  /\ \E now \in Times : SetSessions(loadSessions(storage).val, now)
  /\ lastOp' = Done("reload")
  /\ UNCHANGED <<nextId, call, ret>>

NoCall == [fn |-> "none"]

Init ==
  /\ sessions = <<>>
  /\ storage = saveSessions(<<>>, 0)
  /\ nextId = 1
  /\ lastOp = Done("reload")
  /\ call = NoCall
  /\ ret = NoCall

Next ==
  \/ startSession
  \/ addConsumption
  \/ updateContext
  \/ endSession
  \/ endSessionRow
  \/ resumeSession
  \/ deleteSession
  \/ reload

Spec == Init /\ [][Next]_vars

(* ------------------- the pure functions, called alone ------------------- *)
MaxHours == 1      \* hours part of a duration passed to formatDuration
MaxWeight == 2     \* weightGrams of an event passed to doseFromEvent
MaxSharers == 3    \* sharer count passed to doseFromEvent
MaxStamp == 1      \* event timestamps passed to computeTolerance
MaxNow == 10       \* instants passed to computeTolerance, in half-lives
MaxListLen == 2    \* length of a stored session list

SeqsUpTo(S, n) == UNION {[1..k -> S] : k \in 0..n}

DurationInputs ==
  { ((h * 60 + m) * 60 + sec) * 1000 + r :
      h \in 0..MaxHours, m \in {0, 1, 59}, sec \in {0, 1, 30, 45, 59}, r \in {0, 999} }

ThcInputs == {0 - 10, 0, 20, 100, 150}

Event(t, w, p) ==
  [timestamp |-> t, weightGrams |-> w, thcPercent |-> p, method |-> "Joint", notes |-> Undefined]

DoseInputs ==
  { [fn |-> "doseFromEvent", ev |-> Event(0, w, p), sharers |-> n] :
      w \in (0 - 1)..MaxWeight, p \in ThcInputs, n \in {Undefined} \cup ((0 - 1)..MaxSharers) }

ToleranceEvents == { Event(t, w, 20) : t \in 0..MaxStamp, w \in 0..1 }

ToleranceLists ==
  { << [id |-> 1, startTime |-> 0, active |-> TRUE,
        social |-> [numPeopleSharing |-> n], consumptions |-> evs] >> :
      n \in 1..2, evs \in SeqsUpTo(ToleranceEvents, 2) \ {<<>>} }

ToleranceInputs ==
  { [fn |-> "computeTolerance", list |-> l, t1 |-> a, t2 |-> b] :
      l \in ToleranceLists, a \in 0..MaxNow, b \in 0..MaxNow }

\* sessions as a stored document holds them
StoredSessions ==
  { [id |-> 1, startTime |-> 0, endTime |-> 1, active |-> FALSE,
     social |-> [numPeopleSharing |-> 1], consumptions |-> <<>>],
    [id |-> 2, startTime |-> 1, active |-> TRUE,
     social |-> [numPeopleSharing |-> 2],
     consumptions |-> << [timestamp |-> 1, weightGrams |-> 1, thcPercent |-> 20,
                          method |-> "Joint"] >>],
    [id |-> 3, startTime |-> 1, active |-> TRUE,
     social |-> [numPeopleSharing |-> 1], consumptions |-> <<>>] }

StoredLists == SeqsUpTo(StoredSessions, MaxListLen)

Wrapped(list) ==
  JObject([sessions |-> JArray(list), createdAt |-> JNumber(0), version |-> JNumber(1)])

InitFn ==
  /\ sessions = <<>>
  /\ storage = saveSessions(<<>>, 0)
  /\ nextId = 1
  /\ lastOp = Done("reload")
  /\ ret = NoCall
  /\ \/ \E ms \in DurationInputs : call = [fn |-> "formatDuration", ms |-> ms]
     \/ call \in DoseInputs
     \/ call \in ToleranceInputs
     \/ \E l \in StoredLists : call = [fn |-> "loadSessions", item |-> Text(Wrapped(l))]
     \/ \E l \in StoredLists : call = [fn |-> "loadSessions", item |-> Text(JArray(l))]
     \/ call = [fn |-> "loadSessions", item |-> NoItem]
     \/ call = [fn |-> "loadSessions", item |-> EmptyText]
     \/ call = [fn |-> "loadSessions", item |-> MalformedText]
     \/ call = [fn |-> "loadSessions", item |-> Text(JNull)]
     \/ call = [fn |-> "loadSessions", item |-> Text(JNumber(1))]
     \/ call = [fn |-> "loadSessions", item |-> Text(JString("not json"))]
     \/ call = [fn |-> "loadSessions", item |-> Text(JObject([sessions |-> JString("oops")]))]
     \/ call = [fn |-> "loadSessions", item |-> Text(JObject([sessions |-> JNull]))]
     \/ call = [fn |-> "loadSessions", item |-> Text(JObject([version |-> JNumber(1)]))]

callFormatDuration ==
  /\ call.fn = "formatDuration" /\ ret = NoCall
  /\ ret' = [fn |-> call.fn, val |-> formatDuration(call.ms)]
  /\ UNCHANGED <<sessions, storage, nextId, lastOp, call>>

callDoseFromEvent ==
  /\ call.fn = "doseFromEvent" /\ ret = NoCall
  /\ ret' = [fn |-> call.fn, val |-> doseFromEvent(call.ev, call.sharers)]
  /\ UNCHANGED <<sessions, storage, nextId, lastOp, call>>

callComputeTolerance ==
  /\ call.fn = "computeTolerance" /\ ret = NoCall
  /\ ret' = [fn |-> call.fn, v1 |-> computeTolerance(call.t1, call.list),
             v2 |-> computeTolerance(call.t2, call.list)]
  /\ UNCHANGED <<sessions, storage, nextId, lastOp, call>>

callLoadSessions ==
  /\ call.fn = "loadSessions" /\ ret = NoCall
  /\ ret' = Spread([fn |-> call.fn], loadSessions(call.item))
  /\ UNCHANGED <<sessions, storage, nextId, lastOp, call>>

NextFn ==
  \/ callFormatDuration
  \/ callDoseFromEvent
  \/ callComputeTolerance
  \/ callLoadSessions

SpecFn == InitFn /\ [][NextFn]_vars

(* ------------------------------ properties ----------------------------- *)
Rows == 1..Len(sessions)

HasEndTime(s) == "endTime" \in DOMAIN s /\ s.endTime # Undefined

\* C1: at most one session of the store has active = true.
AtMostOneActive == Cardinality({i \in Rows : sessions[i].active}) <= 1

\* C2: every session has an endTime exactly when it is not active.
EndTimeIffInactive == \A i \in Rows : HasEndTime(sessions[i]) <=> ~sessions[i].active

\* a resumed session (endTime cleared to undefined) next to an ended one
ResumedBesideEnded ==
  \E i, j \in Rows :
    /\ sessions[i].active /\ "endTime" \in DOMAIN sessions[i]
    /\ ~sessions[j].active /\ HasEndTime(sessions[j])

\* C3: with no active session, a call of addConsumption, updateContext or
\* endSession leaves the session list as it is and returns without an error.
NoActiveNoOp ==
  [][(ActiveIdx(sessions) = 0
        /\ lastOp'.name \in {"addConsumption", "updateContext", "endSession"})
      => (sessions' = sessions /\ lastOp'.outcome = "returned")]_vars

\* endSession has returned at its guard, on a list that holds ended sessions
EndedWithoutActive ==
  /\ lastOp = Returned("endSession")
  /\ sessions # <<>>
  /\ ActiveIdx(sessions) = 0

EventFieldsEqual(a, b) ==
  /\ \A k \in {"timestamp", "weightGrams", "thcPercent", "notes"} : Get(a, k) = Get(b, k)
  /\ a.method = b.method

SessionFieldsEqual(a, b) ==
  /\ \A k \in {"id", "startTime", "endTime"} : Get(a, k) = Get(b, k)
  /\ a.active = b.active
  /\ a.social = b.social
  /\ Len(a.consumptions) = Len(b.consumptions)
  /\ \A n \in 1..Len(a.consumptions) : EventFieldsEqual(a.consumptions[n], b.consumptions[n])

\* C4: the list loadSessions reads from what saveSessions wrote equals the saved
\* list, session by session and field by field, in the same order.
SaveLoadRoundTrip ==
  LET loaded == loadSessions(storage).val
  IN /\ Len(loaded) = Len(sessions)
     /\ \A i \in Rows : SessionFieldsEqual(loaded[i], sessions[i])

\* a saved list with a resumed session (endTime undefined) that holds an event
SavedResumedSession ==
  \E i \in Rows :
    /\ "endTime" \in DOMAIN sessions[i] /\ sessions[i].endTime = Undefined
    /\ sessions[i].consumptions # <<>>
    /\ "endTime" \notin DOMAIN loadSessions(storage).val[i]

Loaded == call.fn = "loadSessions" /\ ret.fn = "loadSessions"

\* C5: loadSessions never raises; a wrapped object whose sessions is an array
\* gives that array, a bare array gives the list its wrapped form gives, and
\* every other stored value gives the empty list.
LoadFailsSoft ==
  Loaded =>
    /\ ~ret.threw
    /\ LET item == call.item
       IN IF item.raw # "json" THEN ret.val = <<>>
          ELSE IF item.doc.t = "array"
               THEN ret.val = item.doc.v /\ ret.val = loadSessions(Text(Wrapped(item.doc.v))).val
          ELSE IF item.doc.t = "object" /\ "sessions" \in DOMAIN item.doc.v
                  /\ item.doc.v.sessions.t = "array"
               THEN ret.val = item.doc.v.sessions.v
          ELSE ret.val = <<>>

\* unparseable text has been loaded
LoadedMalformed == Loaded /\ call.item = MalformedText /\ ret.val = <<>>

Formatted == call.fn = "formatDuration" /\ ret.fn = "formatDuration"

Shown(h, m, sec) ==
  LET a == IF h # 0 THEN <<ToString(h) \o "h">> ELSE <<>>
      b == IF m # 0 THEN <<ToString(m) \o "m">> ELSE <<>>
      c == IF sec # 0 THEN <<ToString(sec) \o "s">> ELSE <<>>
  IN IF a \o b \o c = <<>> THEN "0m" ELSE Join(a \o b \o c)

HoursOf(ms) == ms \div 3600000
MinutesOf(ms) == (ms % 3600000) \div 60000
SecondsOf(ms) == (ms % 60000) \div 1000

\* C6 as stated: hours and minutes shown when nonzero, seconds only when hours
\* and minutes are both zero; 0 is "0m", 90000 is "1m", 45000 is "45s",
\* 3661000 is "1h 1m".
FormatSecondsOnlyAlone ==
  Formatted =>
    /\ ret.val = Shown(HoursOf(call.ms), MinutesOf(call.ms),
                       IF HoursOf(call.ms) = 0 /\ MinutesOf(call.ms) = 0
                       THEN SecondsOf(call.ms) ELSE 0)
    /\ call.ms = 0 => ret.val = "0m"
    /\ call.ms = 90000 => ret.val = "1m"
    /\ call.ms = 45000 => ret.val = "45s"
    /\ call.ms = 3661000 => ret.val = "1h 1m"

\* C6 amended: hours and minutes shown when nonzero, seconds shown when hours
\* is zero and seconds is nonzero; 0 is "0m", 90000 is "1m 30s", 45000 is
\* "45s", 3661000 is "1h 1m".
FormatSecondsBelowHour ==
  Formatted =>
    /\ ret.val = Shown(HoursOf(call.ms), MinutesOf(call.ms),
                       IF HoursOf(call.ms) = 0 THEN SecondsOf(call.ms) ELSE 0)
    /\ call.ms = 0 => ret.val = "0m"
    /\ call.ms = 90000 => ret.val = "1m 30s"
    /\ call.ms = 45000 => ret.val = "45s"
    /\ call.ms = 3661000 => ret.val = "1h 1m"

\* one minute and thirty seconds has been formatted
FormattedMinuteAndSeconds == Formatted /\ call.ms = 90000 /\ ret.val = "1m 30s"

\* start of the session at index minus the end, else the start, of the one before
ExactGap(index) ==
  LET prev == sessions[index]
  IN sessions[index + 1].startTime
       - (IF HasEndTime(prev) THEN prev.endTime ELSE prev.startTime)

Indexes == (0 - 1)..(Len(sessions) + 1)

\* C7 as stated: intervalSincePrevious is undefined for index <= 0 and for
\* index >= length, and otherwise exactly the difference.
GapIsExactDifference ==
  \A index \in Indexes :
    intervalSincePrevious(sessions, index) =
      IF index <= 0 \/ index >= Len(sessions) THEN Undefined ELSE ExactGap(index)

\* C7 amended: ... and otherwise the difference, or 0 when the difference is
\* negative.
GapIsClampedDifference ==
  \A index \in Indexes :
    intervalSincePrevious(sessions, index) =
      IF index <= 0 \/ index >= Len(sessions) THEN Undefined
      ELSE IF ExactGap(index) < 0 THEN 0 ELSE ExactGap(index)

\* a session that starts before the one listed before it has ended
StartsBeforePreviousEnds ==
  \E index \in 1..(Len(sessions) - 1) :
    HasEndTime(sessions[index]) /\ ExactGap(index) < 0

Dosed == call.fn = "doseFromEvent" /\ ret.fn = "doseFromEvent"

\* C8: a thcPercent outside [0,100] gives the dose of the nearest bound, a
\* sharer count <= 0 or undefined gives the dose of one sharer, and in range
\* the dose is weightGrams * thcPercent / 100 / sharerCount.
DoseClamps ==
  Dosed =>
    LET ev == call.ev
        n == call.sharers
    IN /\ ev.thcPercent < 0 => ret.val = doseFromEvent([ev EXCEPT !.thcPercent = 0], n)
       /\ ev.thcPercent > 100 => ret.val = doseFromEvent([ev EXCEPT !.thcPercent = 100], n)
       /\ (n = Undefined \/ n <= 0) => ret.val = doseFromEvent(ev, 1)
       /\ (ev.thcPercent >= 0 /\ ev.thcPercent <= 100 /\ n # Undefined /\ n >= 1)
            => ret.val = Frac(ev.weightGrams * ev.thcPercent, 100 * n)

\* a dose computed from a thcPercent above 100 and no sharer count
DosedOutOfRange ==
  /\ Dosed
  /\ call.ev.thcPercent > 100 /\ call.sharers = Undefined /\ call.ev.weightGrams > 0
  /\ ret.val = Frac(call.ev.weightGrams, 1)

\* C9: every stored event has weightGrams >= 0, so every session's dose is >= 0.
WeightsAndDosesNonNegative ==
  \A i \in Rows :
    /\ \A n \in 1..Len(sessions[i].consumptions) : sessions[i].consumptions[n].weightGrams >= 0
    /\ LessEq(Zero, computeSessionDose(sessions[i]))

\* t1 < t2, both after every event, and some event has a positive dose
ToleranceCase ==
  /\ call.fn = "computeTolerance" /\ ret.fn = "computeTolerance"
  /\ call.t1 < call.t2
  /\ \A n \in 1..Len(call.list[1].consumptions) :
       call.list[1].consumptions[n].timestamp < call.t1
  /\ \E n \in 1..Len(call.list[1].consumptions) :
       Less(Zero, doseFromEvent(call.list[1].consumptions[n],
                                call.list[1].social.numPeopleSharing))

SortedByStart(list) ==
  \A i, j \in 1..Len(list) : i < j => list[i].startTime <= list[j].startTime

\* the row of the session with this id, 0 when the list does not hold it
RowOf(list, id) ==
  IF \E r \in 1..Len(list) : list[r].id = id
  THEN CHOOSE r \in 1..Len(list) : list[r].id = id
  ELSE 0

\* every session of list after is in list before, and any two of them stand
\* in the order they had there
KeepsOrder(before, after) ==
  /\ \A r \in 1..Len(after) : RowOf(before, after[r].id) # 0
  /\ \A i, j \in 1..Len(after) :
       i < j => RowOf(before, after[i].id) < RowOf(before, after[j].id)

\* C11: after every operation the stored list is ordered by startTime
\* ascending, and resume, end, add consumption, update context and delete
\* leave the remaining sessions in the order they had.
SortedAndOrderKept ==
  [][/\ SortedByStart(sessions')
     /\ lastOp'.name \in {"resumeSession", "endSession", "addConsumption",
                          "updateContext", "deleteSession"}
          => KeepsOrder(sessions, sessions')]_vars

\* a session started later, with a clock that read earlier, stands first
LaterStartListedFirst ==
  /\ Len(sessions) = 2
  /\ sessions[1].id > sessions[2].id
  /\ sessions[1].startTime < sessions[2].startTime

\* C12: End pressed on the logbook row of an active session s sets
\* active = false and an endTime on s and changes no other session.
RowEndEndsThatRow ==
  [][("row" \in DOMAIN lastOp'
        /\ RowOf(sessions, lastOp'.row) # 0
        /\ sessions[RowOf(sessions, lastOp'.row)].active)
      => /\ Len(sessions') = Len(sessions)
         /\ \A r \in 1..Len(sessions) :
              IF sessions[r].id = lastOp'.row
              THEN ~sessions'[r].active /\ HasEndTime(sessions'[r])
              ELSE sessions'[r] = sessions[r]]_vars

====
